---- MODULE Spec2Model ----
(***************************************************************************)
(* Model of pyrule_compendium.compendium: the facade that selects between  *)
(* the primary endpoint and the master-mode endpoint of the compendium     *)
(* API.  Every public method is one action; the state records the          *)
(* instance, the data served by the two endpoints, the last call, the      *)
(* HTTP requests it issued (in order) and how it ended.                    *)
(***************************************************************************)
EXTENDS Integers, Sequences, FiniteSets, TLC

VARIABLES master_mode,      \* self.master_mode (self.master_api exists iff TRUE)
          default_timeout,  \* self.default_timeout
          primary,          \* the dump served by the primary endpoint
          master,           \* the list served by the master-mode endpoint
          call,             \* the last public call and its arguments
          requests,         \* the HTTP requests issued by that call, in order
          outcome           \* how that call ended

vars == <<master_mode, default_timeout, primary, master, call, requests, outcome>>

----------------------------------------------------------------------------
(* Bounds *)

MaxId == 2          \* monster entry ids are 1..MaxId
MaxLen == 2         \* longest monsters list an endpoint serves
MaxTimeout == 2     \* timeouts are 1..MaxTimeout seconds, or None

----------------------------------------------------------------------------
(* Values *)

None == -1          \* Python's None where a timeout is expected

Categories == {"creatures", "equipment", "materials", "monsters", "treasure"}

ListCategories == {"equipment", "materials", "monsters", "treasure"}

CategoryArgs == Categories \cup {"weapons"}

MasterModeArgs == {"None", "True", "False"}

TimeoutArgs == {None} \cup (1..MaxTimeout)

Ids == 1..MaxId

\* entries of the categories other than monsters, one id each
FoodId == MaxId + 1
NonFoodId == MaxId + 2
EquipmentId == MaxId + 3
MaterialsId == MaxId + 4
TreasureId == MaxId + 5

\* a monster id, or the id of an entry of another category
EntryArgs == Ids \cup {EquipmentId}

Range(s) == {s[i] : i \in DOMAIN s}

\* the lists of distinct ids, at most MaxLen long
Lists == {s \in UNION {[1..n -> Ids] : n \in 0..MaxLen} :
            \A i, j \in DOMAIN s : i # j => s[i] # s[j]}

PrimaryDump(monsters) ==
    [creatures |-> [food |-> <<FoodId>>, non_food |-> <<NonFoodId>>],
     equipment |-> <<EquipmentId>>,
     materials |-> <<MaterialsId>>,
     monsters  |-> monsters,
     treasure  |-> <<TreasureId>>]

\* the empty (falsy) response to an entry request
Empty == [id |-> 0, src |-> "none"]

Truthy(res) == res # Empty

\* `not timeout`
Falsy(timeout) == timeout = None \/ timeout = 0

----------------------------------------------------------------------------
(* The two endpoints *)

InDump(dump, e) ==
    \/ e \in Range(dump.creatures.food)
    \/ e \in Range(dump.creatures.non_food)
    \/ \E c \in ListCategories : e \in Range(dump[c])

OnPrimary(e) == InDump(primary, e)

OnMaster(e) == e \in Range(master)

Req(a, k, e, c, t) ==
    [api |-> a, kind |-> k, entry |-> e, category |-> c, timeout |-> t]

\* GET {base}/entry/{e}
EntryResponse(a, e) ==
    IF a = "primary"
    THEN IF OnPrimary(e) THEN [id |-> e, src |-> "primary"] ELSE Empty
    ELSE IF OnMaster(e) THEN [id |-> e, src |-> "master"] ELSE Empty

\* GET {base}/category/{c} on the primary endpoint
CategoryResponse(c) == IF c \in Categories THEN primary[c] ELSE <<>>

----------------------------------------------------------------------------
(* How a call ends *)

Return(v) == [kind |-> "return", val |-> v]

ReturnNone == [kind |-> "none"]

NoEntryError(entry) == [kind |-> "raise", err |-> "NoEntryError", arg |-> entry]

NoCategoryError(category) ==
    [kind |-> "raise", err |-> "NoCategoryError", arg |-> category]

\* self.master_api is read on an instance constructed without master mode
AttributeError == [kind |-> "raise", err |-> "AttributeError", arg |-> "master_api"]

Result(reqs, out) == [reqs |-> reqs, out |-> out]

entry_image(res, a) == [data |-> res, api |-> a]

----------------------------------------------------------------------------
(* compendium.get_entry *)

\* get_entry that asks the primary endpoint again when the master has nothing
get_entry_retry(entry, timeout, mm) ==
    LET t == IF Falsy(timeout) THEN default_timeout ELSE timeout
        p == Req("primary", "entry", entry, "", t)
        m == Req("master", "entry", entry, "", t)
        pres == EntryResponse("primary", entry)
        mres == EntryResponse("master", entry)
    IN  IF mm = "None"
        THEN IF ~Truthy(pres) /\ master_mode
             THEN IF Truthy(mres)
                  THEN Result(<<p, m>>, Return(mres))
                  ELSE Result(<<p, m, p>>, NoEntryError(entry))
             ELSE IF Truthy(pres)
                  THEN Result(<<p>>, Return(pres))
                  ELSE Result(<<p>>, NoEntryError(entry))
        ELSE IF mm = "True"
        THEN IF ~master_mode
             THEN Result(<<>>, AttributeError)
             ELSE IF Truthy(mres)
                  THEN Result(<<m>>, Return(mres))
                  ELSE Result(<<m>>, NoEntryError(entry))
        ELSE IF Truthy(pres)
             THEN Result(<<p>>, Return(pres))
             ELSE Result(<<p>>, NoEntryError(entry))

\* get_entry that never falls back to the master endpoint
get_entry_no_fallback(entry, timeout, mm) ==
    LET t == IF Falsy(timeout) THEN default_timeout ELSE timeout
        p == Req("primary", "entry", entry, "", t)
        m == Req("master", "entry", entry, "", t)
        pres == EntryResponse("primary", entry)
        mres == EntryResponse("master", entry)
    IN  IF mm = "None"
        THEN IF Truthy(pres)
             THEN Result(<<p>>, Return(pres))
             ELSE Result(<<p>>, NoEntryError(entry))
        ELSE IF mm = "True"
        THEN IF ~master_mode
             THEN Result(<<>>, AttributeError)
             ELSE IF Truthy(mres)
                  THEN Result(<<m>>, Return(mres))
                  ELSE Result(<<m>>, NoEntryError(entry))
        ELSE IF Truthy(pres)
             THEN Result(<<p>>, Return(pres))
             ELSE Result(<<p>>, NoEntryError(entry))

\* get_entry whose master_mode=True branch falls back to the primary endpoint
get_entry_forced_fallback(entry, timeout, mm) ==
    LET t == IF Falsy(timeout) THEN default_timeout ELSE timeout
        p == Req("primary", "entry", entry, "", t)
        m == Req("master", "entry", entry, "", t)
        pres == EntryResponse("primary", entry)
        mres == EntryResponse("master", entry)
    IN  IF mm = "None"
        THEN IF ~Truthy(pres) /\ master_mode
             THEN IF Truthy(mres)
                  THEN Result(<<p, m>>, Return(mres))
                  ELSE Result(<<p, m>>, NoEntryError(entry))
             ELSE IF Truthy(pres)
                  THEN Result(<<p>>, Return(pres))
                  ELSE Result(<<p>>, NoEntryError(entry))
        ELSE IF mm = "True"
        THEN IF ~master_mode
             THEN Result(<<>>, AttributeError)
             ELSE IF Truthy(mres)
                  THEN Result(<<m>>, Return(mres))
                  ELSE IF Truthy(pres)
                       THEN Result(<<m, p>>, Return(pres))
                       ELSE Result(<<m, p>>, NoEntryError(entry))
        ELSE IF Truthy(pres)
             THEN Result(<<p>>, Return(pres))
             ELSE Result(<<p>>, NoEntryError(entry))

get_entry(entry, timeout, mm) ==
    LET t == IF Falsy(timeout) THEN default_timeout ELSE timeout
        p == Req("primary", "entry", entry, "", t)
        m == Req("master", "entry", entry, "", t)
        pres == EntryResponse("primary", entry)
        mres == EntryResponse("master", entry)
    IN  IF mm = "None"
        THEN IF ~Truthy(pres) /\ master_mode
             THEN IF Truthy(mres)
                  THEN Result(<<p, m>>, Return(mres))
                  ELSE Result(<<p, m>>, NoEntryError(entry))
             ELSE IF Truthy(pres)
                  THEN Result(<<p>>, Return(pres))
                  ELSE Result(<<p>>, NoEntryError(entry))
        ELSE IF mm = "True"
        THEN IF ~master_mode
             THEN Result(<<>>, AttributeError)
             ELSE IF Truthy(mres)
                  THEN Result(<<m>>, Return(mres))
                  ELSE Result(<<m>>, NoEntryError(entry))
        ELSE IF Truthy(pres)
             THEN Result(<<p>>, Return(pres))
             ELSE Result(<<p>>, NoEntryError(entry))

----------------------------------------------------------------------------
(* compendium.get_category *)

\* get_category without the check of the category name
get_category_unchecked(category, timeout, mm) ==
    LET t == IF Falsy(timeout) THEN default_timeout ELSE timeout
        pc == Req("primary", "category", 0, category, t)
        mb == Req("master", "base", 0, "", t)
    IN  IF master_mode /\ category = "monsters"
        THEN IF mm = "True" THEN Result(<<mb>>, Return(master))
             ELSE IF mm = "False" THEN Result(<<pc>>, Return(CategoryResponse("monsters")))
             ELSE Result(<<pc, mb>>, Return(CategoryResponse("monsters") \o master))
        ELSE IF mm # "True"
             THEN Result(<<pc>>, Return(CategoryResponse(category)))
             ELSE Result(<<>>, ReturnNone)

\* get_category that does not merge the master list when master_mode is unset
get_category_unmerged(category, timeout, mm) ==
    LET t == IF Falsy(timeout) THEN default_timeout ELSE timeout
        pc == Req("primary", "category", 0, category, t)
        mb == Req("master", "base", 0, "", t)
    IN  IF category \notin Categories
        THEN Result(<<>>, NoCategoryError(category))
        ELSE IF master_mode /\ category = "monsters"
        THEN IF mm = "True" THEN Result(<<mb>>, Return(master))
             ELSE Result(<<pc>>, Return(CategoryResponse("monsters")))
        ELSE IF mm # "True"
             THEN Result(<<pc>>, Return(CategoryResponse(category)))
             ELSE Result(<<>>, ReturnNone)

get_category(category, timeout, mm) ==
    LET t == IF Falsy(timeout) THEN default_timeout ELSE timeout
        pc == Req("primary", "category", 0, category, t)
        mb == Req("master", "base", 0, "", t)
    IN  IF category \notin Categories
        THEN Result(<<>>, NoCategoryError(category))
        ELSE IF master_mode /\ category = "monsters"
        THEN IF mm = "True" THEN Result(<<mb>>, Return(master))
             ELSE IF mm = "False" THEN Result(<<pc>>, Return(CategoryResponse("monsters")))
             ELSE Result(<<pc, mb>>, Return(CategoryResponse("monsters") \o master))
        ELSE IF mm # "True"
             THEN Result(<<pc>>, Return(CategoryResponse(category)))
             ELSE Result(<<>>, ReturnNone)

----------------------------------------------------------------------------
(* compendium.get_all *)

\* get_all that assigns the master list instead of appending it
get_all_overwrite(timeout, mm) ==
    LET t == IF Falsy(timeout) THEN default_timeout ELSE timeout
        pb == Req("primary", "base", 0, "", t)
        mb == Req("master", "base", 0, "", t)
    IN  IF master_mode /\ mm = "None"
        THEN Result(<<pb, mb>>, Return([primary EXCEPT !.monsters = master]))
        ELSE IF mm = "True"
        THEN IF ~master_mode
             THEN Result(<<>>, AttributeError)
             ELSE Result(<<mb>>, Return(master))
        ELSE IF mm = "False" \/ ~master_mode
        THEN Result(<<pb>>, Return(primary))
        ELSE Result(<<>>, ReturnNone)

get_all(timeout, mm) ==
    LET t == IF Falsy(timeout) THEN default_timeout ELSE timeout
        pb == Req("primary", "base", 0, "", t)
        mb == Req("master", "base", 0, "", t)
    IN  IF master_mode /\ mm = "None"
        THEN Result(<<pb, mb>>, Return([primary EXCEPT !.monsters = @ \o master]))
        ELSE IF mm = "True"
        THEN IF ~master_mode
             THEN Result(<<>>, AttributeError)
             ELSE Result(<<mb>>, Return(master))
        ELSE IF mm = "False" \/ ~master_mode
        THEN Result(<<pb>>, Return(primary))
        ELSE Result(<<>>, ReturnNone)

----------------------------------------------------------------------------
(* compendium._is_master_mode_entry and compendium.get_image *)

is_master_mode_entry(entry, timeout) ==
    LET t == IF Falsy(timeout) THEN default_timeout ELSE timeout
        p == Req("primary", "entry", entry, "", t)
        m == Req("master", "entry", entry, "", t)
    IN  IF Truthy(EntryResponse("primary", entry))
        THEN Result(<<p>>, Return(FALSE))
        ELSE IF ~master_mode
        THEN Result(<<p>>, AttributeError)
        ELSE IF Truthy(EntryResponse("master", entry))
        THEN Result(<<p, m>>, Return(TRUE))
        ELSE Result(<<p, m>>, NoEntryError(entry))

\* objects.entry_image(self.get_entry(...), a): the entry is fetched first
image_of(entry, t, mm, a) ==
    LET got == get_entry(entry, t, mm)
    IN  IF got.out.kind # "return" THEN got
        ELSE IF a = "master" /\ ~master_mode
        THEN Result(got.reqs, AttributeError)
        ELSE Result(got.reqs, Return(entry_image(got.out.val, a)))

get_image(entry, timeout, mm) ==
    LET t == IF Falsy(timeout) THEN default_timeout ELSE timeout
    IN  IF mm = "None"
        THEN LET probe == is_master_mode_entry(entry, None)
             IN  IF probe.out.kind # "return" THEN probe
                 ELSE LET img == image_of(entry, t, mm,
                                   IF probe.out.val THEN "master" ELSE "primary")
                      IN  Result(probe.reqs \o img.reqs, img.out)
        ELSE IF mm = "True"
        THEN image_of(entry, t, mm, "master")
        ELSE image_of(entry, t, mm, "primary")

----------------------------------------------------------------------------
(* The state machine *)

Call(op, entry, category, timeout, mm) ==
    [op |-> op, entry |-> entry, category |-> category,
     timeout |-> timeout, master_mode |-> mm]

Init ==
    /\ master_mode \in BOOLEAN
    /\ default_timeout \in TimeoutArgs
    /\ \E monsters \in Lists : primary = PrimaryDump(monsters)
    /\ master \in Lists
    /\ call = Call("init", 0, "", None, "None")
    /\ requests = <<>>
    /\ outcome = [kind |-> "init"]

Finish(c, r) ==
    /\ call' = c
    /\ requests' = r.reqs
    /\ outcome' = r.out
    /\ UNCHANGED <<master_mode, default_timeout, primary, master>>

GetEntry ==
    \E entry \in EntryArgs, timeout \in TimeoutArgs, mm \in MasterModeArgs :
        Finish(Call("get_entry", entry, "", timeout, mm),
               get_entry(entry, timeout, mm))

GetCategory ==
    \E category \in CategoryArgs, timeout \in TimeoutArgs, mm \in MasterModeArgs :
        Finish(Call("get_category", 0, category, timeout, mm),
               get_category(category, timeout, mm))

GetAll ==
    \E timeout \in TimeoutArgs, mm \in MasterModeArgs :
        Finish(Call("get_all", 0, "", timeout, mm), get_all(timeout, mm))

GetImage ==
    \E entry \in EntryArgs, timeout \in TimeoutArgs, mm \in MasterModeArgs :
        Finish(Call("get_image", entry, "", timeout, mm),
               get_image(entry, timeout, mm))

Next == GetEntry \/ GetCategory \/ GetAll \/ GetImage

Spec == Init /\ [][Next]_vars

----------------------------------------------------------------------------
(* Properties of get_entry *)

Raised(err, arg) ==
    /\ outcome.kind = "raise"
    /\ outcome.err = err
    /\ outcome.arg = arg

ApisAsked == {requests[i].api : i \in DOMAIN requests}

\* C1: get_entry with master_mode unset asks the primary endpoint first; a
\* non-empty primary response is returned and the master endpoint is not
\* asked; an empty one on an instance with master mode enabled makes it ask
\* the master endpoint and return its non-empty response; when every
\* endpoint asked answered empty the call raises NoEntryError.
C1_AutoEntryResolution ==
    (call.op = "get_entry" /\ call.master_mode = "None") =>
        LET e == call.entry
            pres == EntryResponse("primary", e)
            mres == EntryResponse("master", e)
        IN  /\ Len(requests) >= 1
            /\ requests[1].api = "primary"
            /\ requests[1].kind = "entry"
            /\ requests[1].entry = e
            /\ Truthy(pres) => (outcome = Return(pres) /\ Len(requests) = 1)
            /\ (~Truthy(pres) /\ master_mode) =>
                  /\ Len(requests) = 2
                  /\ requests[2].api = "master"
                  /\ requests[2].kind = "entry"
                  /\ requests[2].entry = e
                  /\ Truthy(mres) => outcome = Return(mres)
                  /\ ~Truthy(mres) => Raised("NoEntryError", e)
            /\ (~Truthy(pres) /\ ~master_mode) =>
                  (Len(requests) = 1 /\ Raised("NoEntryError", e))

C1_Witness ==
    /\ call.op = "get_entry"
    /\ call.master_mode = "None"
    /\ master_mode
    /\ ~OnPrimary(call.entry)
    /\ OnMaster(call.entry)
    /\ Len(requests) = 2
    /\ outcome = Return(EntryResponse("master", call.entry))

\* C2: get_entry with master_mode=True asks only the master endpoint, with
\* master_mode=False only the primary endpoint, also when the endpoint it
\* asked answered empty, and an empty answer raises NoEntryError.
C2_ExplicitEntryNoFallback ==
    (call.op = "get_entry" /\ call.master_mode # "None") =>
        LET e == call.entry
            a == IF call.master_mode = "True" THEN "master" ELSE "primary"
        IN  /\ ApisAsked \subseteq {a}
            /\ Len(requests) <= 1
            /\ (requests # <<>> /\ ~Truthy(EntryResponse(a, e))) =>
                  Raised("NoEntryError", e)
            /\ (requests # <<>> /\ Truthy(EntryResponse(a, e))) =>
                  outcome = Return(EntryResponse(a, e))

C2_Witness ==
    /\ call.op = "get_entry"
    /\ call.master_mode = "True"
    /\ master_mode
    /\ OnPrimary(call.entry)
    /\ ~OnMaster(call.entry)
    /\ ApisAsked = {"master"}
    /\ Raised("NoEntryError", call.entry)

\* C3: for an entry on neither endpoint get_entry raises NoEntryError with
\* that entry, whatever master_mode is passed and whether or not the
\* instance has master mode enabled.
C3_AbsentEntryAlwaysNoEntryError ==
    (call.op = "get_entry" /\ ~OnPrimary(call.entry) /\ ~OnMaster(call.entry)) =>
        Raised("NoEntryError", call.entry)

----------------------------------------------------------------------------
(* Properties of get_category *)

\* C4: for creatures, equipment, materials and treasure get_category returns
\* the primary endpoint's /category/{name} response whatever master_mode is
\* passed and whether or not the instance has master mode enabled.
C4_OtherCategoriesIgnoreMasterMode ==
    (call.op = "get_category" /\ call.category \in Categories \ {"monsters"}) =>
        /\ outcome = Return(CategoryResponse(call.category))
        /\ ApisAsked = {"primary"}

\* C7: get_category("monsters") on an instance with master mode enabled
\* returns the master endpoint's list for master_mode=True, the primary
\* endpoint's monsters list for master_mode=False, and the primary list
\* followed by the master list when master_mode is unset.
C7_MonstersMerge ==
    (call.op = "get_category" /\ call.category = "monsters" /\ master_mode) =>
        /\ call.master_mode = "True" =>
              (outcome = Return(master) /\ ApisAsked = {"master"})
        /\ call.master_mode = "False" =>
              (outcome = Return(primary.monsters) /\ ApisAsked = {"primary"})
        /\ call.master_mode = "None" =>
              /\ outcome = Return(primary.monsters \o master)
              /\ Len(outcome.val) = Len(primary.monsters) + Len(master)

C7_Witness ==
    /\ call.op = "get_category"
    /\ call.category = "monsters"
    /\ call.master_mode = "None"
    /\ master_mode
    /\ primary.monsters # <<>>
    /\ master # <<>>
    /\ outcome.kind = "return"
    /\ Len(outcome.val) = Len(primary.monsters) + Len(master)

\* C9: get_category with a name outside the five categories raises
\* NoCategoryError with that name, for every master_mode and timeout and on
\* every instance, before any request is issued.
C9_UnknownCategoryRaises ==
    (call.op = "get_category" /\ call.category \notin Categories) =>
        (Raised("NoCategoryError", call.category) /\ requests = <<>>)

C9_Witness ==
    /\ call.op = "get_category"
    /\ call.category = "weapons"
    /\ call.master_mode = "True"
    /\ outcome = NoCategoryError("weapons")

----------------------------------------------------------------------------
(* Properties of get_all *)

\* C8: get_all with master_mode unset on an instance with master mode
\* enabled returns the primary dump with the master list appended to its
\* monsters list; every other category is the primary dump's.
C8_GetAllMerge ==
    (call.op = "get_all" /\ call.master_mode = "None" /\ master_mode) =>
        /\ outcome.kind = "return"
        /\ outcome.val.monsters = primary.monsters \o master
        /\ Len(outcome.val.monsters) = Len(primary.monsters) + Len(master)
        /\ \A c \in Categories \ {"monsters"} : outcome.val[c] = primary[c]

C8_Witness ==
    /\ call.op = "get_all"
    /\ call.master_mode = "None"
    /\ master_mode
    /\ primary.monsters # <<>>
    /\ master # <<>>
    /\ outcome.kind = "return"
    /\ Len(outcome.val.monsters) = Len(primary.monsters) + Len(master)

----------------------------------------------------------------------------
(* Properties of every public operation *)

\* C5 as stated: every public operation issues at most two requests.
C5_AtMostTwoRequests == Len(requests) <= 2

\* C5 amended: get_entry, get_category and get_all issue at most two
\* requests, get_image at most four (two probes, then the two of get_entry),
\* and at most one when master_mode is passed.
C5_RequestBudget ==
    /\ call.op \in {"get_entry", "get_category", "get_all"} => Len(requests) <= 2
    /\ call.op = "get_image" => Len(requests) <= 4
    /\ (call.op = "get_image" /\ call.master_mode # "None") => Len(requests) <= 1

C5_Witness ==
    /\ call.op = "get_image"
    /\ call.master_mode = "None"
    /\ Len(requests) = 4
    /\ outcome.kind = "return"

\* C6: every request of a call uses the timeout passed to the call, and the
\* instance's default_timeout only when none was passed.
C6_PassedTimeoutUsed ==
    (call.op # "init") =>
        \A i \in DOMAIN requests :
            requests[i].timeout =
                IF call.timeout # None THEN call.timeout ELSE default_timeout

----------------------------------------------------------------------------
(* Properties of get_image *)

\* C10: get_image with master_mode unset returns an image bound to the
\* master endpoint for an entry only on the master endpoint of an instance
\* with master mode enabled, an image bound to the primary endpoint for an
\* entry on the primary endpoint, and raises NoEntryError for an entry on
\* neither endpoint.
C10_ImageEndpointResolution ==
    (call.op = "get_image" /\ call.master_mode = "None") =>
        LET e == call.entry
        IN  /\ (master_mode /\ ~OnPrimary(e) /\ OnMaster(e)) =>
                  outcome = Return(entry_image(EntryResponse("master", e), "master"))
            /\ OnPrimary(e) =>
                  outcome = Return(entry_image(EntryResponse("primary", e), "primary"))
            /\ (~OnPrimary(e) /\ ~OnMaster(e)) => Raised("NoEntryError", e)

====
